---- MODULE Spec2Model ----
(***************************************************************************)
(* Serial command protocol of the arduinobot firmware:                     *)
(*   main loop (loop), frame accumulator (getDataFromPC), dispatcher       *)
(*   (parseData), acknowledgement (replyToPC), pump actuation (runPump,    *)
(*   stopPump) and colour measurement (runMeasurement).                    *)
(*                                                                         *)
(* A byte is a one-character string; NUL, the C string terminator, is the  *)
(* empty string.  The host sends printable ASCII text (no NUL bytes).      *)
(* Arrays keep their C indices: inputBuffer and messageFromPC are          *)
(* functions on 0..buffSize-1.                                             *)
(***************************************************************************)
EXTENDS Integers, Sequences, FiniteSets, TLC

VARIABLES
    script,          \* bytes the host has still to send
    sent,            \* history: every byte the host has sent, in order
    rx,              \* the serial receive queue (bytes pending for Serial.read)
    consumed,        \* history: every byte Serial.read has returned, in order
    inputBuffer,     \* comms.h:6
    bytesRecvd,      \* comms.h:9
    readInProgress,  \* comms.h:10
    newDataFromPC,   \* comms.h:11
    messageFromPC,   \* comms.h:13
    duration,        \* comms.h:14, a decimal [num, den]
    pin,             \* comms.h:15
    curMillis,       \* comms.h:17
    pinLevel,        \* level of every output pin written so far
    pc,              \* where the single thread of control is
    trace            \* history: every observable effect, in program order

vars == <<script, sent, rx, consumed, inputBuffer, bytesRecvd, readInProgress,
          newDataFromPC, messageFromPC, duration, pin, curMillis, pinLevel,
          pc, trace>>

(***************************************************************************)
(* Program constants                                                       *)
(***************************************************************************)
buffSize == 40
startMarker == "<"
endMarker == ">"
NUL == ""
NULL == -1          \* the null char*: no index of the buffer
Delim == ","

Digits == <<"0", "1", "2", "3", "4", "5", "6", "7", "8", "9">>
IsDigit(c) == \E i \in 1..10 : Digits[i] = c
DigitVal(c) == (CHOOSE i \in 1..10 : Digits[i] = c) - 1

(***************************************************************************)
(* C strings                                                               *)
(***************************************************************************)
\* Index of the first NUL of buf at or after i (the end of the C string at i).
RECURSIVE StrEnd(_, _)
StrEnd(buf, i) ==
    IF i >= buffSize THEN buffSize
    ELSE IF buf[i] = NUL THEN i
    ELSE StrEnd(buf, i + 1)

\* The C string that starts at index i of buf, as a sequence of bytes.
CStr(buf, i) == [k \in 1..(StrEnd(buf, i) - i) |-> buf[i + k - 1]]

\* strcpy(dst, src): the string and its terminator; the rest of dst is kept.
strcpy(dst, src) ==
    LET n == StrEnd(src, 0)
    IN  [k \in 0..(buffSize - 1) |-> IF k <= n THEN src[k] ELSE dst[k]]

\* strspn(s, ","): first index at or after i that holds no delimiter.
RECURSIVE SkipDelims(_, _)
SkipDelims(buf, i) ==
    IF i < buffSize /\ buf[i] = Delim THEN SkipDelims(buf, i + 1) ELSE i

\* strcspn(s, ","): first index at or after i that holds a delimiter or NUL.
RECURSIVE FindDelim(_, _)
FindDelim(buf, i) ==
    IF i < buffSize /\ buf[i] # Delim /\ buf[i] # NUL
    THEN FindDelim(buf, i + 1) ELSE i

\* Mutant of strtok: leading delimiters are not skipped, so an empty field
\* is returned as an empty token (as strsep would).
strtokKeepsEmpty(buf, s) ==
    IF buf[s] = NUL
    THEN [tok |-> NULL, buf |-> buf, save |-> s]
    ELSE LET e == FindDelim(buf, s)
         IN  IF buf[e] = NUL
             THEN [tok |-> s, buf |-> buf, save |-> e]
             ELSE [tok |-> s, buf |-> [buf EXCEPT ![e] = NUL],
                   save |-> e + 1]

\* strtok(s, ",") resumed at index s of buf: the token (an index, or NULL),
\* the buffer with the token's delimiter overwritten by NUL, and the index
\* the next strtok(NULL, ",") resumes from.
strtok(buf, s) ==
    LET a == SkipDelims(buf, s)
    IN  IF buf[a] = NUL
        THEN [tok |-> NULL, buf |-> buf, save |-> a]
        ELSE LET e == FindDelim(buf, a)
             IN  IF buf[e] = NUL
                 THEN [tok |-> a, buf |-> buf, save |-> e]
                 ELSE [tok |-> a, buf |-> [buf EXCEPT ![e] = NUL],
                       save |-> e + 1]

\* atoi on an unsigned decimal text: the value of the leading digits, 0 if none.
\* (The scripts of the model hold no blank, sign or exponent character, and
\* no number that overflows an int.)
RECURSIVE AtoiFrom(_, _, _)
AtoiFrom(s, i, acc) ==
    IF i <= Len(s) /\ IsDigit(s[i])
    THEN AtoiFrom(s, i + 1, acc * 10 + DigitVal(s[i]))
    ELSE acc
atoi(s) == AtoiFrom(s, 1, 0)

\* Number of leading digits of s from position i.
RECURSIVE DigitRun(_, _)
DigitRun(s, i) ==
    IF i <= Len(s) /\ IsDigit(s[i]) THEN 1 + DigitRun(s, i + 1) ELSE 0

RECURSIVE Pow10(_)
Pow10(n) == IF n = 0 THEN 1 ELSE 10 * Pow10(n - 1)

\* atof on an unsigned decimal text "ddd.ddd": the value as num/den.
\* The value is kept exact; the rounding of float is not modelled.
atof(s) ==
    LET ni == DigitRun(s, 1)
        hasDot == ni + 1 <= Len(s) /\ s[ni + 1] = "."
        nf == IF hasDot THEN DigitRun(s, ni + 2) ELSE 0
        ip == AtoiFrom(s, 1, 0)
        fp == IF hasDot THEN AtoiFrom(s, ni + 2, 0) ELSE 0
    IN  [num |-> ip * Pow10(nf) + fp, den |-> Pow10(nf)]

\* Serial.print of an unsigned integer: its decimal digits.
RECURSIVE Dec(_)
Dec(n) == IF n < 10 THEN <<Digits[n + 1]>>
          ELSE Append(Dec(n \div 10), Digits[(n % 10) + 1])


(***************************************************************************)
(* Text literals of the program                                            *)
(***************************************************************************)
MixStr == <<"M", "i", "x">>
MeasStr == <<"M", "e", "a", "s">>
ReadyBanner == <<"<", "A", "r", "d", "u", "i", "n", "o", " ", "i", "s", " ", "r", "e", "a", "d", "y", ">", "\r", "\n">>
MsgOpen == <<"<", "M", "s", "g", " ">>
TimeSep == <<" ", "T", "i", "m", "e", " ">>
RGBOpen == <<"<", "R", "G", "B", ":">>
LineEnd == <<">", "\r", "\n">>

(***************************************************************************)
(* Observable effects, logged in program order                             *)
(***************************************************************************)
ParseEv(at, open, msg, cur) ==
    [k |-> "parseData", at |-> at, open |-> open, msg |-> msg, cur |-> cur]
PinEv(p, level) == [k |-> "digitalWrite", pin |-> p, level |-> level]
DelayEv(ms) == [k |-> "delay", ms |-> ms]
PrintEv(text) == [k |-> "print", text |-> text]
LedEv(state) == [k |-> "led", state |-> state]
SampleEv(rgb) == [k |-> "getRGB", rgb |-> rgb]

(***************************************************************************)
(* Inputs: what the host sends, what the clock and the sensor return       *)
(***************************************************************************)
MaxFreeLen == 3     \* longest script drawn freely from FreeAlphabet
MaxOver == 2        \* longest payload is buffSize + MaxOver bytes

FreeAlphabet == {"<", ">", ",", "a"}
FreeScripts == UNION {[1..n -> FreeAlphabet] : n \in 0..MaxFreeLen}

RearmScript == <<"<", "M", "i", "<", "M", "i", "x", ",", "2", ",", "1", ".", "0", ">">>

TwoCommands == <<"<", "M", "i", "x", ",", "3", ",", "1", ">", "<", "M", "e", "a", "s", ">">>

CommandScripts == {
    <<"<", "M", "i", "x", ",", "3", ",", "0", ".", "5", ">">>,
    <<"<", "M", "e", "a", "s", ">">>,
    <<"<", "F", "o", "o", ",", "1", ",", "2", ">">>,
    RearmScript,
    <<"<", "M", "i", "x", ">">>,
    <<"<", "M", "i", "x", ",", "3", ">">>,
    <<"<", ",", "M", "i", "x", ",", "3", ",", "1", ">">>,
    <<"<", "M", "i", "x", ",", ",", "3", ",", "0", ".", "5", ">">>,
    <<"<", "F", "o", "o", ",", "1", ",", "2", ">", ">">>,
    TwoCommands,
    <<"<", "M", "e", "a", "s", ">", "<", "a", ">">> }

\* Payload bytes that differ from their neighbours, to tell positions apart.
Filler == <<"a", "b", "c", "d", "e", "f", "g">>
LongPrefixes == {<<>>, <<"M", "i", "x", ",", "2", ",", "1", ".">>, <<"M", "e", "a", "s", ",">>}
LongPayload(prefix, n) ==
    [i \in 1..n |-> IF i <= Len(prefix) THEN prefix[i]
                    ELSE Filler[(i % Len(Filler)) + 1]]
LongScripts ==
    {<<startMarker>> \o LongPayload(p, n) \o <<endMarker>> :
        p \in LongPrefixes, n \in (buffSize - 1)..(buffSize + MaxOver)}

Scripts == FreeScripts \cup CommandScripts \cup LongScripts

\* millis() is a 32-bit counter; these are the values the model samples.
ClockSamples == {511, 1535}

\* tcs.getRGB: the raw (red, green, blue) readings the sensor returns.
\* Each element is the three readings of one measurement.
Readings == {<< <<30, 60, 90>>, <<33, 66, 99>>, <<36, 60, 90>> >>,
             << <<4, 0, 255>>, <<4, 0, 255>>, <<1, 2, 200>> >>}

\* Outcomes of passing a null pointer to atoi / atof (undefined behaviour):
\* some number read from whatever is at address 0, or a fault.
UBInts == {0, 3}
UBDurations == {[num |-> 0, den |-> 1]}

(***************************************************************************)
(* The program                                                             *)
(***************************************************************************)
\* Mutant of SerialRead: the newest pending byte is returned first.
SerialReadNewest(q) == [x |-> q[Len(q)], rest |-> SubSeq(q, 1, Len(q) - 1)]

\* Serial.read(): the oldest pending byte, and the queue without it.
SerialRead(q) == [x |-> Head(q), rest |-> Tail(q)]

\* digitalWrite(p, level)
digitalWrite(levels, p, level) ==
    [q \in (DOMAIN levels) \cup {p} |-> IF q = p THEN level ELSE levels[q]]

\* Mutant of stopPump: the level that is right for the test LED, not the relay.
stopPumpLow(levels, p) == digitalWrite(levels, p, "LOW")

\* stopPump(pin)
stopPump(levels, p) == digitalWrite(levels, p, "HIGH")

\* Mutant of Elapsed: the clock divided by 500 instead of shifted by 9 bits.
ElapsedBy500(cur) == cur \div 500

\* curMillis >> 9
Elapsed(cur) == cur \div 512

\* The frame replyToPC prints.
ReplyText(msg, cur) ==
    MsgOpen \o CStr(msg, 0) \o TimeSep \o Dec(Elapsed(cur)) \o LineEnd

\* replyToPC(): what it prints, given newDataFromPC, messageFromPC, curMillis.
replyToPC(flag, msg, cur) ==
    IF flag THEN <<PrintEv(ReplyText(msg, cur))>> ELSE <<>>

\* delay(duration * 1000): the whole milliseconds of a decimal of seconds.
DelayMs(d) == (d.num * 1000) \div d.den

\* Mutant of VerbBranches: every verb that is not Mix is taken for Meas.
VerbBranchesNoElse(t) ==
    IF t.tok = NULL THEN {"Mix", "Meas", "Other", "fault"}
    ELSE IF CStr(t.buf, t.tok) = MixStr THEN {"Mix"}
    ELSE {"Meas"}

\* strcmp(tok, "Mix") == 0 / strcmp(tok, "Meas") == 0 on the first token:
\* the branches parseData can take.  Comparing a null token is undefined
\* behaviour: any branch, or a fault.
VerbBranches(t) ==
    IF t.tok = NULL THEN {"Mix", "Meas", "Other", "fault"}
    ELSE IF CStr(t.buf, t.tok) = MixStr THEN {"Mix"}
    ELSE IF CStr(t.buf, t.tok) = MeasStr THEN {"Meas"}
    ELSE {"Other"}

\* atoi(strtokIndx) / atof(strtokIndx): the values the call can return;
\* ok = FALSE is a fault.
PinArgs(t) ==
    IF t.tok = NULL
    THEN {[ok |-> TRUE, v |-> n] : n \in UBInts} \cup {[ok |-> FALSE, v |-> 0]}
    ELSE {[ok |-> TRUE, v |-> atoi(CStr(t.buf, t.tok))]}
DurationArgs(t) ==
    IF t.tok = NULL
    THEN {[ok |-> TRUE, v |-> d] : d \in UBDurations}
         \cup {[ok |-> FALSE, v |-> [num |-> 0, den |-> 1]]}
    ELSE {[ok |-> TRUE, v |-> atof(CStr(t.buf, t.tok))]}

\* The Mix branch of parseData up to the call of runPump.
MixOutcomes(t1, pin0, dur0) ==
    LET t2 == strtok(t1.buf, t1.save)
        t3 == strtok(t2.buf, t2.save)
    IN  {IF ~p.ok
           THEN [kind |-> "fault", buf |-> t2.buf, pin |-> pin0, duration |-> dur0]
         ELSE IF ~d.ok
           THEN [kind |-> "fault", buf |-> t3.buf, pin |-> p.v, duration |-> dur0]
         ELSE [kind |-> "Mix", buf |-> t3.buf, pin |-> p.v, duration |-> d.v] :
         p \in PinArgs(t2), d \in DurationArgs(t3)}

\* parseData() on inputBuffer = buf, up to its first call of replyToPC,
\* runPump or runMeasurement: the branch taken and the globals it leaves.
parseData(buf, pin0, dur0) ==
    LET t1 == strtok(buf, 0)
    IN  UNION {
          IF b = "Mix" THEN MixOutcomes(t1, pin0, dur0)
          ELSE {[kind |-> b, buf |-> t1.buf, pin |-> pin0, duration |-> dur0]} :
          b \in VerbBranches(t1)}

\* parseData's Mix branch: runPump(pin, duration) up to its delay.
MixBranch(p, d) == <<PinEv(p, "LOW"), DelayEv(DelayMs(d))>>

\* Mutant of MixReturn: the reply is printed before the pump is stopped.
MixReturnReplyFirst(p, flag, msg, cur) ==
    replyToPC(flag, msg, cur) \o <<PinEv(p, "HIGH")>>

\* runPump after its delay, stopPump(pin), and parseData's replyToPC.
MixReturn(p, flag, msg, cur) ==
    <<PinEv(p, "HIGH")>> \o replyToPC(flag, msg, cur)

\* Mutant of MeasBranch: the measurement is started before the reply.
MeasBranchReplyLast(flag, msg, cur) ==
    <<LedEv("off"), LedEv("on"), DelayEv(500)>> \o replyToPC(flag, msg, cur)

\* parseData's Meas branch: replyToPC(), then runMeasurement up to its
\* first delay.
MeasBranch(flag, msg, cur) ==
    replyToPC(flag, msg, cur) \o <<LedEv("off"), LedEv("on"), DelayEv(500)>>

\* parseData's else branch: replyToPC() alone.
OtherBranch(flag, msg, cur) == replyToPC(flag, msg, cur)

\* Mutant of Accumulate: the length is pinned one byte too early.
AccumulatePinsEarly(x, rip, buf, n) ==
    LET buf2 == IF rip THEN [buf EXCEPT ![n] = x] ELSE buf
        n2 == IF rip
              THEN (IF n + 1 >= buffSize - 1 THEN buffSize - 2 ELSE n + 1)
              ELSE n
    IN  [inputBuffer |-> buf2,
         bytesRecvd |-> IF x = startMarker THEN 0 ELSE n2,
         readInProgress |-> IF x = startMarker THEN TRUE ELSE rip]

\* Mutant of Accumulate: a start marker inside an open frame does not reset
\* the length.
AccumulateNoRearm(x, rip, buf, n) ==
    LET buf2 == IF rip THEN [buf EXCEPT ![n] = x] ELSE buf
        n2 == IF rip
              THEN (IF n + 1 = buffSize THEN buffSize - 1 ELSE n + 1)
              ELSE n
    IN  [inputBuffer |-> buf2,
         bytesRecvd |-> IF x = startMarker /\ ~rip THEN 0 ELSE n2,
         readInProgress |-> IF x = startMarker THEN TRUE ELSE rip]

\* Mutant of Accumulate: the start-marker clause runs before the append
\* clause, so the start marker itself is stored at index 0.
AccumulateStartFirst(x, rip, buf, n) ==
    LET rip1 == IF x = startMarker THEN TRUE ELSE rip
        n1 == IF x = startMarker THEN 0 ELSE n
        buf2 == IF rip1 THEN [buf EXCEPT ![n1] = x] ELSE buf
        n2 == IF rip1
              THEN (IF n1 + 1 = buffSize THEN buffSize - 1 ELSE n1 + 1)
              ELSE n1
    IN  [inputBuffer |-> buf2, bytesRecvd |-> n2, readInProgress |-> rip1]

\* Mutant of Accumulate: the length is not held at buffSize - 1.
AccumulateNoClamp(x, rip, buf, n) ==
    LET buf2 == IF rip THEN [buf EXCEPT ![n] = x] ELSE buf
        n2 == IF rip THEN n + 1 ELSE n
    IN  [inputBuffer |-> buf2,
         bytesRecvd |-> IF x = startMarker THEN 0 ELSE n2,
         readInProgress |-> IF x = startMarker THEN TRUE ELSE rip]

\* getDataFromPC, the two IF clauses after the end-marker clause.
Accumulate(x, rip, buf, n) ==
    LET buf2 == IF rip THEN [buf EXCEPT ![n] = x] ELSE buf
        n2 == IF rip
              THEN (IF n + 1 = buffSize THEN buffSize - 1 ELSE n + 1)
              ELSE n
    IN  [inputBuffer |-> buf2,
         bytesRecvd |-> IF x = startMarker THEN 0 ELSE n2,
         readInProgress |-> IF x = startMarker THEN TRUE ELSE rip]

\* Mutant of NoByteAvailable: Serial.read() is called although nothing is
\* pending, and the -1 it returns is handled as a byte.
ReadWithoutAvailable(rip, buf, n) == Accumulate("-1", rip, buf, n)

\* getDataFromPC when Serial.available() is 0: the globals it leaves.
NoByteAvailable(rip, buf, n) ==
    [inputBuffer |-> buf, bytesRecvd |-> n, readInProgress |-> rip]

\* Mutant of LoopRuns: loop() also runs while a delay is in progress.
LoopRunsDuringDelay(p) == p # "fault"

\* loop() is entered only when the previous iteration has returned: delay()
\* blocks the one thread of control.
LoopRuns(p) == p = "loop"

\* runMeasurement, the sampling loop: getRGB overwrites the three channels,
\* then each channel is added to itself.
RECURSIVE SampleLoop(_, _, _)
SampleLoop(acc, readings, i) ==
    IF i > 3 THEN acc
    ELSE SampleLoop([c \in 1..3 |-> readings[i][c] + readings[i][c]],
                    readings, i + 1)

\* runMeasurement, the frame printed: int(channel / 3.0) of each channel.
RGBText(readings) ==
    LET sum == SampleLoop(<<0, 0, 0>>, readings, 1)
    IN  RGBOpen \o Dec(sum[1] \div 3) \o <<",">> \o Dec(sum[2] \div 3)
        \o <<",">> \o Dec(sum[3] \div 3) \o LineEnd

\* runMeasurement after its first delay: the readings, the LEDs off, the frame.
MeasReturn(rd) ==
    <<SampleEv(rd[1]), DelayEv(100), SampleEv(rd[2]), DelayEv(100),
      SampleEv(rd[3]), DelayEv(100), DelayEv(500), LedEv("off"),
      PrintEv(RGBText(rd))>>

\* setup(): the globals' initial values, the banner, pinSetup.
Init ==
    /\ script \in Scripts
    /\ sent = <<>>
    /\ rx = <<>>
    /\ consumed = <<>>
    /\ inputBuffer = [i \in 0..(buffSize - 1) |-> NUL]
    /\ bytesRecvd = 0
    /\ readInProgress = FALSE
    /\ newDataFromPC = FALSE
    /\ messageFromPC = [i \in 0..(buffSize - 1) |-> NUL]
    /\ duration = [num |-> 0, den |-> 1]
    /\ pin = 0
    /\ curMillis = 0
    /\ pinLevel = [p \in 2..9 |-> "HIGH"]
    /\ pc = "loop"
    /\ trace = <<PrintEv(ReadyBanner)>>

\* The host puts its next byte on the wire.
HostSend ==
    /\ script # <<>>
    /\ script' = Tail(script)
    /\ sent' = Append(sent, Head(script))
    /\ rx' = Append(rx, Head(script))
    /\ UNCHANGED <<consumed, inputBuffer, bytesRecvd, readInProgress,
                   newDataFromPC, messageFromPC, duration, pin, curMillis,
                   pinLevel, pc, trace>>

\* One iteration of loop(): curMillis = millis(); getDataFromPC(), run up to
\* its return or to the first blocking delay of the command it dispatches.
loop ==
    /\ LoopRuns(pc)
    /\ curMillis' \in ClockSamples
    /\ UNCHANGED <<script, sent>>
    /\ IF rx = <<>>
       THEN LET a == NoByteAvailable(readInProgress, inputBuffer, bytesRecvd)
            IN  /\ inputBuffer' = a.inputBuffer
                /\ bytesRecvd' = a.bytesRecvd
                /\ readInProgress' = a.readInProgress
                /\ UNCHANGED <<rx, consumed, newDataFromPC, messageFromPC,
                               duration, pin, pinLevel, pc, trace>>
       ELSE
         LET r == SerialRead(rx)
             x == r.x
         IN
         /\ rx' = r.rest
         /\ consumed' = Append(consumed, x)
         /\ IF x # endMarker
            THEN LET a == Accumulate(x, readInProgress, inputBuffer, bytesRecvd)
                 IN  /\ inputBuffer' = a.inputBuffer
                     /\ bytesRecvd' = a.bytesRecvd
                     /\ readInProgress' = a.readInProgress
                     /\ UNCHANGED <<newDataFromPC, messageFromPC, duration,
                                    pin, pinLevel, pc, trace>>
            ELSE
              LET buf1 == [inputBuffer EXCEPT ![bytesRecvd] = NUL]
                  msg1 == strcpy(messageFromPC, buf1)
                  ev == ParseEv(Len(consumed) + 1, readInProgress, CStr(buf1, 0),
                             curMillis')
              IN
              \E o \in parseData(buf1, pin, duration) :
                /\ messageFromPC' = msg1
                /\ pin' = o.pin
                /\ duration' = o.duration
                /\ CASE o.kind = "Mix" ->
                        \* runPump up to its delay
                        /\ inputBuffer' = o.buf
                        /\ UNCHANGED bytesRecvd
                        /\ readInProgress' = FALSE
                        /\ newDataFromPC' = TRUE
                        /\ pinLevel' = digitalWrite(pinLevel, o.pin, "LOW")
                        /\ trace' = trace \o <<ev>>
                                    \o MixBranch(o.pin, o.duration)
                        /\ pc' = "runPump"
                     [] o.kind = "Meas" ->
                        \* replyToPC, then runMeasurement up to its first delay
                        /\ inputBuffer' = o.buf
                        /\ UNCHANGED <<bytesRecvd, pinLevel>>
                        /\ readInProgress' = FALSE
                        /\ newDataFromPC' = FALSE
                        /\ trace' = trace \o <<ev>>
                                    \o MeasBranch(TRUE, msg1, curMillis')
                        /\ pc' = "runMeasurement"
                     [] o.kind = "Other" ->
                        \* replyToPC, return, rest of getDataFromPC
                        LET a == Accumulate(x, FALSE, o.buf, bytesRecvd)
                        IN  /\ inputBuffer' = a.inputBuffer
                            /\ bytesRecvd' = a.bytesRecvd
                            /\ readInProgress' = a.readInProgress
                            /\ newDataFromPC' = FALSE
                            /\ trace' = trace \o <<ev>>
                                        \o OtherBranch(TRUE, msg1, curMillis')
                            /\ UNCHANGED <<pinLevel, pc>>
                     [] o.kind = "fault" ->
                        /\ inputBuffer' = o.buf
                        /\ UNCHANGED <<bytesRecvd, pinLevel>>
                        /\ readInProgress' = FALSE
                        /\ newDataFromPC' = TRUE
                        /\ trace' = trace \o <<ev>>
                        /\ pc' = "fault"

\* runPump's delay is over: stopPump(pin), then parseData's replyToPC, then
\* the rest of getDataFromPC (x is the end marker).
runPumpReturn ==
    /\ pc = "runPump"
    /\ LET a == Accumulate(endMarker, readInProgress, inputBuffer, bytesRecvd)
       IN  /\ inputBuffer' = a.inputBuffer
           /\ bytesRecvd' = a.bytesRecvd
           /\ readInProgress' = a.readInProgress
    /\ pinLevel' = stopPump(pinLevel, pin)
    /\ newDataFromPC' = FALSE
    /\ trace' = trace \o MixReturn(pin, newDataFromPC, messageFromPC, curMillis)
    /\ pc' = "loop"
    /\ UNCHANGED <<script, sent, rx, consumed, messageFromPC, duration, pin,
                   curMillis>>

\* runMeasurement after its first delay: three readings, the LEDs off, the
\* RGB frame; then the rest of getDataFromPC (x is the end marker).
runMeasurementReturn ==
    /\ pc = "runMeasurement"
    /\ LET a == Accumulate(endMarker, readInProgress, inputBuffer, bytesRecvd)
       IN  /\ inputBuffer' = a.inputBuffer
           /\ bytesRecvd' = a.bytesRecvd
           /\ readInProgress' = a.readInProgress
    /\ \E rd \in Readings :
         trace' = trace \o MeasReturn(rd)
    /\ pc' = "loop"
    /\ UNCHANGED <<script, sent, rx, consumed, newDataFromPC, messageFromPC,
                   duration, pin, curMillis, pinLevel>>

Next == HostSend \/ loop \/ runPumpReturn \/ runMeasurementReturn

Spec == Init /\ [][Next]_vars

(***************************************************************************)
(* Vocabulary of the properties, read off the histories                    *)
(***************************************************************************)
\* A frame is open before the j-th byte of s: a start marker precedes it
\* with no end marker in between.
OpenBefore(s, j) ==
    \E i \in 1..(j - 1) :
        s[i] = startMarker /\ \A k \in (i + 1)..(j - 1) : s[k] # endMarker

\* Position of the most recent start marker before the j-th byte of s.
LastStart(s, j) ==
    CHOOSE i \in 1..(j - 1) :
        s[i] = startMarker /\ \A k \in (i + 1)..(j - 1) : s[k] # startMarker

\* The payload of the frame the j-th byte of s closes: the bytes after the
\* most recent start marker.
Payload(s, j) == SubSeq(s, LastStart(s, j) + 1, j - 1)

\* The end markers read so far that closed an open frame.
ClosingEnds ==
    {j \in 1..Len(consumed) :
        consumed[j] = endMarker /\ OpenBefore(consumed, j)}

\* Positions in the trace of the invocations of parseData.
DispatchIdx == {i \in 1..Len(trace) : trace[i].k = "parseData"}

\* The invocations of parseData made on reading the j-th byte.
DispatchAt(j) == {i \in DispatchIdx : trace[i].at = j}

\* What the program did from one invocation of parseData to the next.
NextDispatch(i) ==
    IF \E n \in DispatchIdx : n > i
    THEN CHOOSE n \in DispatchIdx : n > i /\ \A m \in DispatchIdx : m > i => n <= m
    ELSE Len(trace) + 1
Segment(i) == SubSeq(trace, i + 1, NextDispatch(i) - 1)

\* The call of getDataFromPC that made the i-th trace entry's dispatch has
\* returned.
Returned(i) == NextDispatch(i) <= Len(trace) \/ pc = "loop"

(***************************************************************************)
(* C1: a frame is recognised (parseData is invoked) on reading a byte if   *)
(* and only if that byte is an end marker closing an open frame, and the   *)
(* number of dispatches equals the number of such end markers; an end      *)
(* marker read while no frame is open dispatches nothing.                  *)
(***************************************************************************)
C1_DispatchIffOpenFrameClosed ==
    /\ \A j \in 1..Len(consumed) : (DispatchAt(j) # {}) <=> (j \in ClosingEnds)
    /\ Cardinality(DispatchIdx) = Cardinality(ClosingEnds)

(***************************************************************************)
(* C2: a call of getDataFromPC reads at most one byte and dispatches at    *)
(* most one command however many bytes are pending, and the bytes are read *)
(* in the order they were received: what was read followed by what is      *)
(* pending is always exactly what was sent.                                *)
(***************************************************************************)
C2_Fifo == consumed \o rx = sent

C2_OneStep ==
    /\ Len(consumed') <= Len(consumed) + 1
    /\ Cardinality(DispatchIdx') <= Cardinality(DispatchIdx) + 1
    /\ pc # "loop" =>
         /\ consumed' = consumed
         /\ Cardinality(DispatchIdx') = Cardinality(DispatchIdx)
    /\ Len(consumed') = Len(consumed) + 1 =>
         /\ rx # <<>>
         /\ consumed' = Append(consumed, Head(rx))
         /\ rx' = Tail(rx)

C2_OneByteOneCommandFifo == [](C2_Fifo) /\ [][C2_OneStep]_vars

\* A command was dispatched by a call that left two or more bytes pending.
C2_Witness ==
    /\ Len(rx) >= 2
    /\ pc = "loop"
    /\ DispatchAt(Len(consumed)) # {}

(***************************************************************************)
(* Reply frames, as the host reads them                                    *)
(***************************************************************************)
AllDigits(s) == s # <<>> /\ \A k \in 1..Len(s) : IsDigit(s[k])

\* The fields of s between the separators c, empty fields included.
RECURSIVE SplitOn(_, _)
SplitOn(s, c) ==
    IF \A k \in 1..Len(s) : s[k] # c THEN <<s>>
    ELSE LET k == CHOOSE k \in 1..Len(s) :
                      s[k] = c /\ \A m \in 1..(k - 1) : s[m] # c
         IN  <<SubSeq(s, 1, k - 1)>> \o SplitOn(SubSeq(s, k + 1, Len(s)), c)

\* text is "<Msg " msg " Time " T ">" and the line end, T a decimal number.
IsAckOf(text, msg) ==
    LET h == MsgOpen \o msg \o TimeSep
        n == Len(text)
    IN  /\ n > Len(h) + Len(LineEnd)
        /\ SubSeq(text, 1, Len(h)) = h
        /\ SubSeq(text, n - Len(LineEnd) + 1, n) = LineEnd
        /\ AllDigits(SubSeq(text, Len(h) + 1, n - Len(LineEnd)))

\* text is "<RGB:" r "," g "," b ">" and the line end, r, g, b decimal numbers.
IsRGBFrame(text) ==
    LET n == Len(text)
    IN  /\ n > Len(RGBOpen) + Len(LineEnd)
        /\ SubSeq(text, 1, Len(RGBOpen)) = RGBOpen
        /\ SubSeq(text, n - Len(LineEnd) + 1, n) = LineEnd
        /\ LET f == SplitOn(SubSeq(text, Len(RGBOpen) + 1, n - Len(LineEnd)), ",")
           IN  Len(f) = 3 /\ \A c \in 1..3 : AllDigits(f[c])

Prints(seg) == SelectSeq(seg, LAMBDA e : e.k = "print")
PinWrites(seg) == SelectSeq(seg, LAMBDA e : e.k = "digitalWrite")

(***************************************************************************)
(* C3: when an end marker closes a frame whose payload is longer than      *)
(* buffSize bytes, parseData is invoked once with a message of exactly     *)
(* buffSize-1 bytes, the first buffSize-1 bytes of the payload, and what   *)
(* is printed for it is the acknowledgement of that message (and the RGB   *)
(* frame of a Meas), nothing that signals an error.                        *)
(***************************************************************************)
C3_TruncatedToCapacity ==
    \A j \in ClosingEnds :
        LET pl == Payload(consumed, j)
        IN  Len(pl) > buffSize =>
              /\ Cardinality(DispatchAt(j)) = 1
              /\ \A i \in DispatchAt(j) :
                   /\ Len(trace[i].msg) = buffSize - 1
                   /\ trace[i].msg = SubSeq(pl, 1, buffSize - 1)
                   /\ LET pr == Prints(Segment(i))
                      IN  \A n \in 1..Len(pr) :
                             \/ IsAckOf(pr[n].text, SubSeq(pl, 1, buffSize - 1))
                             \/ IsRGBFrame(pr[n].text)
                   /\ Returned(i) =>
                        \E n \in 1..Len(Segment(i)) :
                            /\ Segment(i)[n].k = "print"
                            /\ IsAckOf(Segment(i)[n].text,
                                       SubSeq(pl, 1, buffSize - 1))

\* A frame with more than buffSize payload bytes was closed and dispatched,
\* and the call has returned.
C3_Witness ==
    \E j \in ClosingEnds :
        /\ Len(Payload(consumed, j)) > buffSize
        /\ \E i \in DispatchAt(j) : Returned(i)

(***************************************************************************)
(* C4: when the most recent start marker arrived while a frame was open,   *)
(* the message dispatched at the next end marker is exactly the bytes      *)
(* received after that start marker; "<Mi" then "<Mix,2,1.0>" dispatches   *)
(* one command, with message "Mix,2,1.0".                                  *)
(***************************************************************************)
Rearmed(j) == OpenBefore(consumed, LastStart(consumed, j))

C4_RearmDiscardsPartial ==
    /\ \A j \in ClosingEnds :
         (Rearmed(j) /\ Len(Payload(consumed, j)) < buffSize) =>
           /\ Cardinality(DispatchAt(j)) = 1
           /\ \A i \in DispatchAt(j) : trace[i].msg = Payload(consumed, j)
    /\ consumed = RearmScript =>
         /\ Cardinality(DispatchIdx) = 1
         /\ \A i \in DispatchIdx :
              trace[i].msg = SubSeq(RearmScript, 5, Len(RearmScript) - 1)

\* The re-arm script has been read to its end marker and the call returned.
C4_Witness ==
    /\ consumed = RearmScript
    /\ pc = "loop"
    /\ \E j \in ClosingEnds : Rearmed(j)

(***************************************************************************)
(* Commands, as the protocol reads a payload: fields by position           *)
(***************************************************************************)
Fields(msg) == SplitOn(msg, ",")

IsDecimal(s) ==
    LET parts == SplitOn(s, ".")
    IN  Len(parts) \in {1, 2} /\ \A n \in 1..Len(parts) : AllDigits(parts[n])

RECURSIVE NatOf(_)
NatOf(s) ==
    IF s = <<>> THEN 0
    ELSE NatOf(SubSeq(s, 1, Len(s) - 1)) * 10 + DigitVal(s[Len(s)])

\* Whole milliseconds of a decimal number of seconds.
MillisOf(s) ==
    LET parts == SplitOn(s, ".")
        frac == IF Len(parts) = 2 THEN parts[2] ELSE <<>>
    IN  NatOf(parts[1]) * 1000 + (NatOf(frac) * 1000) \div Pow10(Len(frac))

WellFormedMix(msg) ==
    LET f == Fields(msg)
    IN  Len(f) = 3 /\ f[1] = MixStr /\ AllDigits(f[2]) /\ IsDecimal(f[3])

MalformedMix(msg) ==
    LET f == Fields(msg)
    IN  /\ f[1] = MixStr
        /\ ~(Len(f) >= 3 /\ AllDigits(f[2]) /\ IsDecimal(f[3]))

MeasVerb(msg) == Fields(msg)[1] = MeasStr

UnknownVerb(msg) ==
    LET f == Fields(msg)
    IN  f[1] # <<>> /\ f[1] # MixStr /\ f[1] # MeasStr

IsAck(text) ==
    Len(text) >= Len(MsgOpen) /\ SubSeq(text, 1, Len(MsgOpen)) = MsgOpen

IsLastDispatch(i) == NextDispatch(i) = Len(trace) + 1

(***************************************************************************)
(* C5: for a well-formed Mix frame "Mix,p,d" the program drives pin p LOW, *)
(* waits d seconds, drives pin p HIGH and only then prints one             *)
(* acknowledgement "<Msg Mix,p,d Time T>"; nothing else happens, no other  *)
(* pin is written, and no reply precedes the deactivation.                 *)
(***************************************************************************)
C5_MixActuatesThenAcks ==
    \A i \in DispatchIdx :
        WellFormedMix(trace[i].msg) =>
          LET f == Fields(trace[i].msg)
              p == NatOf(f[2])
              seg == Segment(i)
          IN  /\ Len(seg) \in 2..4
              /\ seg[1].k = "digitalWrite" /\ seg[1].pin = p /\ seg[1].level = "LOW"
              /\ seg[2].k = "delay" /\ seg[2].ms = MillisOf(f[3])
              /\ Len(seg) >= 3 =>
                   seg[3].k = "digitalWrite" /\ seg[3].pin = p /\ seg[3].level = "HIGH"
              /\ Len(seg) = 4 =>
                   seg[4].k = "print" /\ IsAckOf(seg[4].text, trace[i].msg)
              /\ Returned(i) => Len(seg) = 4
              /\ (IsLastDispatch(i) /\ pc = "runPump") =>
                   /\ Len(seg) = 2
                   /\ pinLevel[p] = "LOW"
                   /\ \A q \in (DOMAIN pinLevel) \ {p} : pinLevel[q] = "HIGH"
              /\ (IsLastDispatch(i) /\ pc = "loop") =>
                   \A q \in DOMAIN pinLevel : pinLevel[q] = "HIGH"

\* "<Mix,3,0.5>" was dispatched: pin 3 went LOW, 500 ms, HIGH, then the reply.
C5_Witness ==
    \E i \in DispatchIdx :
        /\ trace[i].msg = <<"M", "i", "x", ",", "3", ",", "0", ".", "5">>
        /\ Returned(i)
        /\ Len(Segment(i)) = 4
        /\ Segment(i)[1] = PinEv(3, "LOW")
        /\ Segment(i)[2] = DelayEv(500)

(***************************************************************************)
(* C6: for a frame whose verb is Meas the program prints the               *)
(* acknowledgement first, then runs the settle/sample sequence, then       *)
(* prints one RGB frame: two reply frames in that order, and no pin is     *)
(* written.                                                                *)
(***************************************************************************)
MeasKinds == <<"print", "led", "led", "delay", "getRGB", "delay", "getRGB",
               "delay", "getRGB", "delay", "delay", "led", "print">>

C6_MeasAcksThenMeasures ==
    \A i \in DispatchIdx :
        MeasVerb(trace[i].msg) =>
          LET seg == Segment(i)
          IN  /\ Len(seg) \in {4, Len(MeasKinds)}
              /\ \A n \in 1..Len(seg) : seg[n].k = MeasKinds[n]
              /\ IsAckOf(seg[1].text, trace[i].msg)
              /\ Len(seg) = Len(MeasKinds) => IsRGBFrame(seg[Len(seg)].text)
              /\ Returned(i) => Len(seg) = Len(MeasKinds)
              /\ PinWrites(seg) = <<>>

\* "<Meas>" was dispatched and both of its frames have been printed.
C6_Witness ==
    \E i \in DispatchIdx :
        /\ trace[i].msg = MeasStr
        /\ Returned(i)
        /\ Len(Prints(Segment(i))) = 2

(***************************************************************************)
(* C7: for a frame whose verb is neither Mix nor Meas the program prints   *)
(* the acknowledgement echoing the message and nothing else: no RGB frame, *)
(* no pin written; the call returns and the loop goes on polling.          *)
(***************************************************************************)
C7_UnknownVerbOnlyAcks ==
    \A i \in DispatchIdx :
        UnknownVerb(trace[i].msg) =>
          LET seg == Segment(i)
          IN  /\ Len(seg) = 1
              /\ seg[1].k = "print"
              /\ IsAckOf(seg[1].text, trace[i].msg)
              /\ IsLastDispatch(i) =>
                   /\ pc = "loop"
                   /\ newDataFromPC = FALSE
                   /\ readInProgress =
                        OpenBefore(consumed, Len(consumed) + 1)

\* "<Foo,1,2>" was dispatched.
C7_Witness ==
    \E i \in DispatchIdx :
        /\ trace[i].msg = <<"F", "o", "o", ",", "1", ",", "2">>
        /\ trace[i].at \in ClosingEnds
        /\ Len(Segment(i)) = 1

C9_OneAckPerDispatch ==
    /\ pc \in {"loop", "fault"} =>
         Len(SelectSeq(trace, LAMBDA e : e.k = "print" /\ IsAck(e.text)))
           = Cardinality(DispatchIdx)
    /\ \A i \in DispatchIdx :
         /\ Len(SelectSeq(Segment(i),
                          LAMBDA e : e.k = "print" /\ IsAck(e.text))) <= 1
         /\ (MeasVerb(trace[i].msg) /\ Returned(i)) =>
              Len(SelectSeq(Segment(i),
                            LAMBDA e : e.k = "print" /\ IsRGBFrame(e.text))) = 1
    /\ pc = "loop" => newDataFromPC = FALSE

(***************************************************************************)
(* C10: a Mix frame whose pin or duration argument is missing or malformed *)
(* writes no pin and still gets its acknowledgement.                       *)
(***************************************************************************)
C10_MalformedMixSkipsPump ==
    \A i \in DispatchIdx :
        MalformedMix(trace[i].msg) =>
          /\ PinWrites(Segment(i)) = <<>>
          /\ (Returned(i) \/ pc = "fault") =>
               \E n \in 1..Len(Segment(i)) :
                   /\ Segment(i)[n].k = "print"
                   /\ IsAckOf(Segment(i)[n].text, trace[i].msg)

(***************************************************************************)
(* C11: the RGB frame of a measurement reports, for each channel, the sum  *)
(* of the three readings taken during that measurement divided by 3,       *)
(* truncated to an integer.                                                *)
(***************************************************************************)
MeanText(smp) ==
    RGBOpen \o Dec((smp[1].rgb[1] + smp[2].rgb[1] + smp[3].rgb[1]) \div 3)
    \o <<",">> \o Dec((smp[1].rgb[2] + smp[2].rgb[2] + smp[3].rgb[2]) \div 3)
    \o <<",">> \o Dec((smp[1].rgb[3] + smp[2].rgb[3] + smp[3].rgb[3]) \div 3)
    \o LineEnd

C11_RGBIsMeanOfReadings ==
    \A i \in DispatchIdx :
        LET seg == Segment(i)
            smp == SelectSeq(seg, LAMBDA e : e.k = "getRGB")
        IN  (Len(smp) = 3 /\ seg[Len(seg)].k = "print"
             /\ IsRGBFrame(seg[Len(seg)].text)) =>
               seg[Len(seg)].text = MeanText(smp)

(***************************************************************************)
(* C12: a byte other than the start marker that is read while no frame is  *)
(* open changes nothing: the buffer, its length, both flags and the last   *)
(* message stay as they were, nothing is dispatched and nothing printed.   *)
(***************************************************************************)
C12_Step ==
    (/\ pc = "loop"
     /\ rx # <<>>
     /\ consumed' # consumed
     /\ ~readInProgress
     /\ Head(rx) # startMarker) =>
        UNCHANGED <<inputBuffer, bytesRecvd, readInProgress, newDataFromPC,
                    messageFromPC, trace>>

C12_BytesOutsideFrameDiscarded == [][C12_Step]_vars

(***************************************************************************)
(* C13: a call of getDataFromPC that finds no byte pending changes         *)
(* nothing: buffer, length, flags, last message, pin levels and the        *)
(* receive queue stay as they were and nothing is printed.                 *)
(***************************************************************************)
C13_Step ==
    (pc = "loop" /\ rx = <<>> /\ sent' = sent) =>
        UNCHANGED <<inputBuffer, bytesRecvd, readInProgress, newDataFromPC,
                    messageFromPC, pinLevel, rx, consumed, pc, trace>>

C13_NoByteNoEffect == [][C13_Step]_vars

\* loop() has run although the host has sent nothing: the clock snapshot
\* was taken and getDataFromPC found no byte.
C13_Witness ==
    /\ sent = <<>>
    /\ curMillis # 0
    /\ pc = "loop"
    /\ trace = <<PrintEv(ReadyBanner)>>

(***************************************************************************)
(* C14: the accumulator starts Idle (readInProgress false).  Reading a     *)
(* start marker in Idle opens a frame; reading an end marker in Open goes  *)
(* back to Idle and invokes parseData, the end marker itself not being     *)
(* stored (a terminator is written in its place); any other byte read in   *)
(* Open is stored at the current length and the frame stays open; a start  *)
(* marker read in Open keeps the frame open with the length back at 0.     *)
(***************************************************************************)
C14_Step ==
    (pc = "loop" /\ rx # <<>> /\ consumed' # consumed) =>
      LET x == Head(rx)
      IN  /\ (~readInProgress /\ x = startMarker) =>
                readInProgress' /\ bytesRecvd' = 0
          /\ (readInProgress /\ x = endMarker) =>
                /\ ~readInProgress'
                /\ Len(trace') > Len(trace)
                /\ trace'[Len(trace) + 1].k = "parseData"
                /\ trace'[Len(trace) + 1].at = Len(consumed')
                /\ inputBuffer'[bytesRecvd] = NUL
                /\ bytesRecvd' = bytesRecvd
          /\ (readInProgress /\ x # endMarker) =>
                /\ readInProgress'
                /\ inputBuffer'[bytesRecvd] = x
                /\ trace' = trace
          /\ (readInProgress /\ x # endMarker /\ x # startMarker) =>
                bytesRecvd' = IF bytesRecvd + 1 = buffSize
                              THEN buffSize - 1 ELSE bytesRecvd + 1
          /\ (readInProgress /\ x = startMarker) => bytesRecvd' = 0

C14_TwoStateAccumulator ==
    (~readInProgress /\ bytesRecvd = 0) /\ [][C14_Step]_vars

\* All four transitions were taken: a frame was opened, bytes were stored, a
\* start marker re-armed it, and an end marker closed it with a non-empty
\* message.
C14_Witness ==
    /\ pc = "loop"
    /\ ~readInProgress
    /\ consumed # <<>>
    /\ Len(consumed) \in ClosingEnds
    /\ Rearmed(Len(consumed))
    /\ Payload(consumed, Len(consumed)) # <<>>
    /\ LastStart(consumed, Len(consumed)) > 2

(***************************************************************************)
(* C15: once an end marker has closed a frame and getDataFromPC has        *)
(* returned, the accumulated length is 0; and every dispatched message is  *)
(* made only of bytes received since the previous end marker, so nothing   *)
(* of an earlier frame is dispatched again.                                *)
(***************************************************************************)
SincePrevEnd(j) ==
    LET ends == {k \in 1..(j - 1) : consumed[k] = endMarker}
        last == IF ends = {} THEN 0
                ELSE CHOOSE k \in ends : \A m \in ends : m <= k
    IN  SubSeq(consumed, last + 1, j - 1)

IsPartOf(msg, s) ==
    \E a \in 0..Len(s) : SubSeq(s, a + 1, a + Len(msg)) = msg

C15_BufferResetAfterDispatch ==
    /\ (pc = "loop" /\ consumed # <<>> /\ Len(consumed) \in ClosingEnds) =>
          bytesRecvd = 0
    /\ \A i \in DispatchIdx : IsPartOf(trace[i].msg, SincePrevEnd(trace[i].at))

(***************************************************************************)
(* C18: the accumulated length is always within 0..buffSize-1, so the      *)
(* index of every write to inputBuffer is inside the buffer, and every     *)
(* message handed to parseData and held in messageFromPC has at most       *)
(* buffSize-1 characters before its terminator.                            *)
(***************************************************************************)
C18_LengthWithinBuffer ==
    /\ bytesRecvd \in 0..(buffSize - 1)
    /\ DOMAIN inputBuffer = 0..(buffSize - 1)
    /\ DOMAIN messageFromPC = 0..(buffSize - 1)
    /\ \E k \in 0..(buffSize - 1) : messageFromPC[k] = NUL
    /\ Len(CStr(messageFromPC, 0)) <= buffSize - 1
    /\ \A i \in DispatchIdx : Len(trace[i].msg) <= buffSize - 1

\* A frame is open, more than buffSize bytes of payload have been read, and
\* the length stands at the last index.
C18_Witness ==
    /\ readInProgress
    /\ bytesRecvd = buffSize - 1
    /\ Len(consumed) - LastStart(consumed, Len(consumed) + 1) > buffSize

(***************************************************************************)
(* C16, as stated: the verb is the first comma-separated field of the      *)
(* message, the Mix pin the second and the Mix duration the third, empty   *)
(* fields included; so a message whose first field is not "Mix" writes no  *)
(* pin, and a Mix drives the pin its second field names (an empty field    *)
(* reads as 0).  Stated for the messages in which parseData finds every    *)
(* token it asks for.                                                      *)
(***************************************************************************)
NonEmptyFields(msg) == SelectSeq(Fields(msg), LAMBDA f : f # <<>>)

NoNullToken(msg) ==
    LET t == NonEmptyFields(msg)
    IN  t # <<>> /\ (t[1] = MixStr => Len(t) >= 3)

LeadingCommaMix == <<",", "M", "i", "x", ",", "3", ",", "1">>
EmptyPinMix == <<"M", "i", "x", ",", ",", "3", ",", "0", ".", "5">>

C16_StrictlyPositional ==
    \A i \in DispatchIdx :
        LET msg == trace[i].msg
            f == Fields(msg)
            seg == Segment(i)
        IN  NoNullToken(msg) =>
              /\ f[1] # MixStr => PinWrites(seg) = <<>>
              /\ (f[1] = MixStr /\ Len(f) >= 3
                  /\ (f[2] = <<>> \/ AllDigits(f[2]))) =>
                    seg[1] = PinEv(NatOf(f[2]), "LOW")

(***************************************************************************)
(* C16, amended: tokens are taken by position among the NON-EMPTY          *)
(* comma-separated fields, leading and repeated commas being skipped: the  *)
(* verb is the first non-empty field, the Mix pin the second and the Mix   *)
(* duration the third.  So ",Mix,3,1" drives pin 3 for 1 s and             *)
(* "Mix,,3,0.5" drives pin 3 for 0.5 s.                                    *)
(***************************************************************************)
C16_PositionalAmongTokens ==
    \A i \in DispatchIdx :
        LET msg == trace[i].msg
            t == NonEmptyFields(msg)
            seg == Segment(i)
        IN  t # <<>> =>
              /\ t[1] # MixStr => PinWrites(seg) = <<>>
              /\ t[1] = MeasStr =>
                   /\ Len(seg) >= 2
                   /\ seg[1].k = "print" /\ IsAckOf(seg[1].text, msg)
                   /\ seg[2] = LedEv("off")
              /\ (t[1] # MixStr /\ t[1] # MeasStr) =>
                   Len(seg) = 1 /\ seg[1].k = "print"
                   /\ IsAckOf(seg[1].text, msg)
              /\ (t[1] = MixStr /\ Len(t) >= 3 /\ AllDigits(t[2])
                  /\ IsDecimal(t[3])) =>
                   /\ Len(seg) >= 2
                   /\ seg[1] = PinEv(NatOf(t[2]), "LOW")
                   /\ seg[2] = DelayEv(MillisOf(t[3]))
              /\ msg = LeadingCommaMix =>
                   seg[1] = PinEv(3, "LOW") /\ seg[2] = DelayEv(1000)
              /\ msg = EmptyPinMix =>
                   seg[1] = PinEv(3, "LOW") /\ seg[2] = DelayEv(500)

\* ",Mix,3,1" and nothing else was received, it ran as a Mix on pin 3 and
\* the call has returned.
C16_Witness ==
    /\ consumed = <<startMarker>> \o LeadingCommaMix \o <<endMarker>>
    /\ pc = "loop"
    /\ \E i \in DispatchIdx :
         /\ trace[i].msg = LeadingCommaMix
         /\ Len(Segment(i)) = 4
         /\ Segment(i)[1] = PinEv(3, "LOW")
         /\ Segment(i)[3] = PinEv(3, "HIGH")

(***************************************************************************)
(* C17: while runPump or runMeasurement is executing no byte is read: the  *)
(* bytes the host sends stay pending, and the only way out of the window   *)
(* is the command's own completion.  So every command whose call has       *)
(* returned ran whole (a Mix: LOW, delay, HIGH, reply; a Meas: reply,      *)
(* the sampling sequence, RGB frame) before the next one was dispatched,   *)
(* and commands are dispatched in the order their end markers were read.   *)
(***************************************************************************)
C17_Step ==
    pc \in {"runPump", "runMeasurement"} =>
      /\ consumed' = consumed
      /\ rx' = rx \/ (script # <<>> /\ rx' = Append(rx, Head(script)))
      /\ DispatchIdx' = DispatchIdx
      /\ pc' \in {pc, "loop"}
      /\ pc' = pc => trace' = trace
      /\ pc' = "loop" =>
           /\ Len(trace') > Len(trace)
           /\ SubSeq(trace', 1, Len(trace)) = trace
           /\ trace'[Len(trace')].k = "print"

C17_RanWhole ==
    \A i \in DispatchIdx :
        LET seg == Segment(i)
        IN  /\ \A k \in DispatchIdx : i < k => trace[i].at < trace[k].at
            /\ (Returned(i) /\ seg # <<>> /\ seg[1].k = "digitalWrite") =>
                  /\ Len(seg) = 4
                  /\ seg[3].k = "digitalWrite" /\ seg[3].level = "HIGH"
                  /\ seg[4].k = "print" /\ IsAckOf(seg[4].text, trace[i].msg)
            /\ (Returned(i) /\ Len(seg) > 1 /\ seg[1].k = "print") =>
                  /\ Len(seg) = Len(MeasKinds)
                  /\ IsAckOf(seg[1].text, trace[i].msg)
                  /\ IsRGBFrame(seg[Len(seg)].text)
            /\ (~Returned(i) /\ pc # "fault") =>
                  /\ pc \in {"runPump", "runMeasurement"}
                  /\ seg[Len(seg)].k = "delay"

C17_NoPollingWhileExecuting == [](C17_RanWhole) /\ [][C17_Step]_vars

\* The pump of the first command is running and the host has already sent
\* the whole second command, which is pending unread.
C17_Witness ==
    /\ pc = "runPump"
    /\ sent = TwoCommands
    /\ rx = SubSeq(TwoCommands, 10, Len(TwoCommands))
    /\ Cardinality(DispatchIdx) = 1
    /\ trace[Len(trace)].k = "delay"

(***************************************************************************)
(* C19: no pump is left running.  After setup and whenever the program is  *)
(* not inside runPump every output is HIGH (relay off); inside runPump     *)
(* exactly the commanded pin is LOW; every LOW written to a pin is         *)
(* followed, after the delay, by HIGH written to the same pin; and no      *)
(* byte is read while a pin is LOW.                                        *)
(***************************************************************************)
C19_Levels ==
    /\ 2..9 \subseteq DOMAIN pinLevel
    /\ pc # "runPump" => \A q \in DOMAIN pinLevel : pinLevel[q] = "HIGH"
    /\ pc = "runPump" =>
         /\ pin \in DOMAIN pinLevel
         /\ pinLevel[pin] = "LOW"
         /\ \A q \in (DOMAIN pinLevel) \ {pin} : pinLevel[q] = "HIGH"

C19_Paired ==
    \A n \in 1..Len(trace) :
        (trace[n].k = "digitalWrite" /\ trace[n].level = "LOW") =>
          /\ n + 1 <= Len(trace)
          /\ trace[n + 1].k = "delay"
          /\ n + 2 <= Len(trace) => trace[n + 2] = PinEv(trace[n].pin, "HIGH")
          /\ n + 2 > Len(trace) => pc = "runPump" /\ pin = trace[n].pin

C19_Step ==
    (\E q \in DOMAIN pinLevel : pinLevel[q] = "LOW") => consumed' = consumed

C19_NoPumpLeftRunning == [](C19_Levels /\ C19_Paired) /\ [][C19_Step]_vars

\* "<Mix,3,0.5>" has run and returned: pin 3 went LOW, then HIGH, and is
\* HIGH now.
C19_Witness ==
    /\ pc = "loop"
    /\ consumed = <<"<", "M", "i", "x", ",", "3", ",", "0", ".", "5", ">">>
    /\ pinLevel[3] = "HIGH"
    /\ \E n \in 1..Len(trace) :
         /\ n + 2 <= Len(trace)
         /\ trace[n] = PinEv(3, "LOW")
         /\ trace[n + 2] = PinEv(3, "HIGH")

(***************************************************************************)
(* C20: a closed frame whose message has no verb token (empty, or commas   *)
(* only) is handled as an unknown verb: the program does not fault, and    *)
(* what it does for that frame is exactly one acknowledgement echoing the  *)
(* message, with no pin written and no measurement made.                   *)
(***************************************************************************)
C20_NoVerbIsUnknown ==
    \A i \in DispatchIdx :
        (trace[i].at \in ClosingEnds /\ NonEmptyFields(trace[i].msg) = <<>>) =>
          LET seg == Segment(i)
          IN  /\ Len(seg) = 1
              /\ seg[1].k = "print"
              /\ IsAckOf(seg[1].text, trace[i].msg)

====
